---- MODULE Spec2Model ----
(***************************************************************************)
(* Model of utils/onebrc.py: a script that picks an input path from the    *)
(* command line, hands it to pandas.read_csv with chunksize=1_000_000 and  *)
(* then calls .groupby("name") on what read_csv returned.                  *)
(*                                                                         *)
(* Temperatures are kept in tenths of a degree (1.0 is 10, 5.5 is 55).     *)
(* A line of a file is the sequence of its fields after splitting on ";".  *)
(***************************************************************************)
EXTENDS Integers, Sequences, FiniteSets, TLC

\* ---------------------------------------------------------------- bounds
MaxLines == 2

\* ----------------------------------------------------- program constants
DefaultPath == "./data/test.txt"
ChunkSize == 1000000

\* ------------------------------------------------------ input universes
Prog == "onebrc.py"
OtherPath == "measurements.txt"
ExtraArg == "extra"
Paths == {DefaultPath, OtherPath}
None == "None"

Keys == {"A", "X"}
TempFields == {"1.0", "5.5"}
GoodLines == {<<k, t>> : k \in Keys, t \in TempFields}
\* B;abc   B (no delimiter)   ;1.0 (empty key)
BadLines == {<<"B", "abc">>, <<"B">>, <<"", "1.0">>}
Lines == GoodLines \cup BadLines

SeqsUpTo(S, n) == UNION {[1..m -> S] : m \in 0..n}
Contents == SeqsUpTo(Lines, MaxLines)
\* a path names either no file, or a file with the given lines
Missing == [exists |-> FALSE, lines |-> <<>>]
Files == {[exists |-> TRUE, lines |-> c] : c \in Contents}
NoReader == [type |-> None, path |-> None, chunksize |-> 0, currow |-> 0]
NoOutput == [printed |-> FALSE, rows |-> {}]
Argvs == {<<Prog>>, <<Prog, OtherPath>>, <<Prog, DefaultPath>>,
          <<Prog, OtherPath, ExtraArg>>}

VARIABLES argv, fs, pc, fname, opened, cities, exc, result, exitcode
vars == <<argv, fs, pc, fname, opened, cities, exc, result, exitcode>>

Init ==
    /\ argv \in Argvs
    /\ fs \in [Paths -> Files \cup {Missing}]
    /\ pc = "select"
    /\ fname = None
    /\ opened = None
    /\ cities = NoReader
    /\ exc = None
    /\ result = NoOutput
    /\ exitcode = -1

\* the path is taken to be the default whatever the command line says
ChooseFnameIgnoresArg(av) == DefaultPath

\* lines 5-8: if len(argv) == 2: fname = argv[1] else: fname = "./data/test.txt"
\* (argv[1] of Python is the second element, index 2 here)
ChooseFname(av) == IF Len(av) = 2 THEN av[2] ELSE DefaultPath

SelectFile ==
    /\ pc = "select"
    /\ fname' = ChooseFname(argv)
    /\ pc' = "read_csv"
    /\ UNCHANGED <<argv, fs, opened, cities, exc, result, exitcode>>

\* What read_csv(..., chunksize=1_000_000) returns for a file it could open:
\* an iterator over chunks of at most chunksize rows, positioned at row 0.
\* No row is parsed before a chunk is requested.
TextFileReader(path) ==
    [type |-> "TextFileReader", path |-> path, chunksize |-> ChunkSize,
     currow |-> 0]

Raise(e) ==
    /\ exc' = e
    /\ pc' = "raised"

\* line 10: cities = pd.read_csv(fname, delimiter=";", names=[...],
\*                               memory_map=True, chunksize=1_000_000)
ReadCsv ==
    /\ pc = "read_csv"
    /\ opened' = fname
    /\ IF ~fs[fname].exists
       THEN /\ Raise("FileNotFoundError")
            /\ UNCHANGED cities
       ELSE IF fs[fname].lines = <<>>
       THEN \* memory_map=True on a zero-length file: depending on the
            \* pandas release the mmap failure is raised or swallowed
            \/ /\ Raise("ValueError")
               /\ UNCHANGED cities
            \/ /\ cities' = TextFileReader(fname)
               /\ pc' = "print"
               /\ UNCHANGED exc
       ELSE /\ cities' = TextFileReader(fname)
            /\ pc' = "print"
            /\ UNCHANGED exc
    /\ UNCHANGED <<argv, fs, fname, result, exitcode>>

\* The attributes of the object read_csv returns when chunksize is given.
TextFileReaderAttrs ==
    {"close", "get_chunk", "read", "__next__", "__iter__", "__enter__", "__exit__"}

\* line 11: print(cities.groupby("name").apply(...)): the attribute lookup
\* cities.groupby comes first; on a TextFileReader it raises AttributeError,
\* so neither apply nor print runs and nothing is written to stdout.
GroupByPrint ==
    /\ pc = "print"
    /\ cities.type = "TextFileReader"
    /\ "groupby" \notin TextFileReaderAttrs
    /\ Raise("AttributeError")
    /\ UNCHANGED <<argv, fs, fname, opened, cities, result, exitcode>>

\* End of the script: an uncaught exception ends the interpreter with
\* status 1, falling off the end of the script with status 0.
ExitStatus(e) == IF e = None THEN 0 ELSE 1

Exit ==
    /\ pc \in {"raised", "end"}
    /\ exitcode' = ExitStatus(exc)
    /\ pc' = "done"
    /\ UNCHANGED <<argv, fs, fname, opened, cities, exc, result>>

Next == SelectFile \/ ReadCsv \/ GroupByPrint \/ Exit

Spec == Init /\ [][Next]_vars

\* ------------------------------------------------------------------------
\* What the claims expect of a run, computed from the lines of the file.
\* ------------------------------------------------------------------------
\* the decimal fields of the input universe, in tenths
TenthsOf == [f \in TempFields |-> IF f = "1.0" THEN 10 ELSE 55]

WellFormed(line) == Len(line) = 2 /\ line[1] # "" /\ line[2] \in TempFields
AllWellFormed(lines) == \A i \in 1..Len(lines) : WellFormed(lines[i])
InputLines == fs[opened].lines
Readable == opened # None /\ fs[opened].exists

KeysOf(lines) == {lines[i][1] : i \in 1..Len(lines)}
IdxOf(lines, k) == {i \in 1..Len(lines) : lines[i][1] = k}
ValueAt(lines, i) == TenthsOf[lines[i][2]]
CountOf(lines, k) == Cardinality(IdxOf(lines, k))
RECURSIVE SumOver(_, _)
SumOver(lines, I) ==
    IF I = {} THEN 0
    ELSE LET i == CHOOSE j \in I : TRUE
         IN ValueAt(lines, i) + SumOver(lines, I \ {i})
SumOf(lines, k) == SumOver(lines, IdxOf(lines, k))
MinOf(lines, k) ==
    CHOOSE v \in {ValueAt(lines, i) : i \in IdxOf(lines, k)} :
        \A i \in IdxOf(lines, k) : v <= ValueAt(lines, i)
MaxOf(lines, k) ==
    CHOOSE v \in {ValueAt(lines, i) : i \in IdxOf(lines, k)} :
        \A i \in IdxOf(lines, k) : v >= ValueAt(lines, i)
\* the mean sum/count as the pair <<sum, count>>; two means are equal when
\* they cross-multiply to the same product
SameMean(m, n) == m[1] * n[2] = n[1] * m[2]

\* one line of output per key: name, min, mean, max
ExpectedRows(lines) ==
    {[name |-> k, min |-> MinOf(lines, k),
      mean |-> <<SumOf(lines, k), CountOf(lines, k)>>,
      max |-> MaxOf(lines, k)] : k \in KeysOf(lines)}
\* FinalStats of the whole input taken as one chunk
OneChunkStats(lines) ==
    [k \in KeysOf(lines) |->
        [count |-> CountOf(lines, k), sum |-> SumOf(lines, k),
         min |-> MinOf(lines, k), max |-> MaxOf(lines, k)]]

\* C1: a run on a file of well-formed key;value lines ends normally and its
\* result holds, for exactly the keys of the file, the minimum, the mean and
\* the maximum of the values of that key.
C1_ResultIsMinMeanMax ==
    (pc = "done" /\ Readable /\ InputLines # <<>> /\ AllWellFormed(InputLines))
        => /\ exc = None
           /\ exitcode = 0
           /\ result.printed
           /\ result.rows = ExpectedRows(InputLines)

FormatErrors == {"FormatError", "ParserError"}
HasMalformed(lines) == \E i \in 1..Len(lines) : ~WellFormed(lines[i])
C5_MalformedIsFormatError ==
    (pc = "done" /\ Readable /\ HasMalformed(InputLines))
        => /\ exc \in FormatErrors
           /\ exitcode # 0
           /\ ~result.printed

\* C6: a run on an empty file ends with exit code 0 and an empty result.
C6_EmptyFileIsSuccess ==
    (pc = "done" /\ Readable /\ InputLines = <<>>)
        => /\ exitcode = 0
           /\ result.printed
           /\ result.rows = {}

\* C7: with one argument the file read is that path, with none it is
\* ./data/test.txt; a run that ends without an exception exits with code 0
\* and a run on an unreadable file exits with a non-zero code.
C7_PathFromArgument ==
    /\ pc \notin {"select", "read_csv"} =>
          /\ Len(argv) = 2 => opened = argv[2]
          /\ Len(argv) = 1 => opened = "./data/test.txt"
    /\ pc = "done" =>
          /\ exc = None => exitcode = 0
          /\ ~fs[opened].exists => exitcode \notin {0, -1}

\* an argument other than the default path was given, the default file
\* exists as well, and the run has read the file the argument names
C7_Witness ==
    /\ pc = "done"
    /\ Len(argv) = 2
    /\ argv[2] # DefaultPath
    /\ fs[DefaultPath].exists
    /\ opened = argv[2]
    /\ exitcode # -1
====
